---- MODULE Spec2Model ----
(***************************************************************************)
(* Selection-state reconciliation of the timetable viewer (src/src/App.js):*)
(* the three reducers (selected modules, specified occurrences, hidden     *)
(* events), the occurrence-spec parser, and the URL query state they write *)
(* through to.  Strings are sequences of one-character strings, so that    *)
(* concatenation, split, join, the regular expression and parseInt are     *)
(* computed rather than assumed.                                           *)
(***************************************************************************)
EXTENDS Integers, Sequences, FiniteSets

VARIABLES
  url,                  \* the query string: parameter name -> value
  selectedModules,      \* state of useReducer(selectedModulesReducer, ...)
  specifiedOccurrences, \* state of useReducer(changeOccurrences, ...)
  hidden,               \* state of useReducer(changeHidden, ...)
  lastAction,           \* the action of the latest dispatch
  prevAction,           \* the action of the dispatch before it
  prev,                 \* url and stored sequences as the latest dispatch found them
  writes,               \* the query-parameter writes of the latest dispatch, in order
  threw,                \* a reducer has thrown: the component tree is gone
  dispatched,           \* dispatches counted while the reducers are interleaved
  parseIn,              \* parser on its own: the [module, tokens] pairs
  parseSel,             \* parser on its own: the selected module ids
  parseOut,             \* parser on its own: the triples returned
  log,                  \* every query-parameter write issued since mount, in order
  session,              \* state of useState(s): the session whose dataset is fetched
  timetableData,        \* state of useState({}): the raw dataset, in iteration order
  modules               \* state of useState({}): the module catalog

vars == <<url, selectedModules, specifiedOccurrences, hidden, lastAction,
          prevAction, prev, writes, threw, dispatched,
          parseIn, parseSel, parseOut, log, session, timetableData, modules>>

---------------------------------------------------------------------------
(* Bounds of the model *)

\* longest specified-occurrence sequence a select may extend
MaxOcc == 2
\* longest hidden-key sequence a hide may extend
MaxHidden == 2
\* longest candidate sequence handed to the selection reducer
MaxSel == 2
\* number of dispatches explored when the three reducers are interleaved
MaxDispatch == 2
\* longest candidate sequence handed over while the reducers are interleaved
MaxAppSel == 1
\* most [module, occurrences] pairs handed to the parser
MaxPairs == 2

---------------------------------------------------------------------------
(* Strings *)

DigitChars == <<"0", "1", "2", "3", "4", "5", "6", "7", "8", "9">>

IsDigit(c) == \E d \in 1..10 : DigitChars[d] = c

DigitVal(c) == (CHOOSE d \in 1..10 : DigitChars[d] = c) - 1

\* Number -> String of a non-negative integer, as `groupId + occurrence` does
RECURSIVE numberToString(_)
numberToString(n) ==
  IF n < 10 THEN <<DigitChars[n + 1]>>
  ELSE numberToString(n \div 10) \o <<DigitChars[(n % 10) + 1]>>

\* parseInt of a non-empty run of decimal digits
RECURSIVE parseInt(_)
parseInt(ds) ==
  IF Len(ds) = 0 THEN 0
  ELSE 10 * parseInt(SubSeq(ds, 1, Len(ds) - 1)) + DigitVal(ds[Len(ds)])

\* String.prototype.split(sep) for a one-character separator
RECURSIVE Split(_, _)
Split(s, sep) ==
  IF \A i \in 1..Len(s) : s[i] # sep THEN <<s>>
  ELSE LET i == CHOOSE k \in 1..Len(s) :
                  s[k] = sep /\ \A j \in 1..(k - 1) : s[j] # sep
       IN <<SubSeq(s, 1, i - 1)>> \o Split(SubSeq(s, i + 1, Len(s)), sep)

\* Array.prototype.join(sep) of an array of strings
RECURSIVE Join(_, _)
Join(xs, sep) ==
  IF Len(xs) = 0 THEN <<>>
  ELSE IF Len(xs) = 1 THEN xs[1]
  ELSE xs[1] \o <<sep>> \o Join(Tail(xs), sep)

\* Array.prototype.map / flatMap over a sequence
RECURSIVE FlatMap(_, _)
FlatMap(F(_), xs) ==
  IF Len(xs) = 0 THEN <<>> ELSE F(xs[1]) \o FlatMap(F, Tail(xs))

Map(F(_), xs) == [i \in 1..Len(xs) |-> F(xs[i])]

Includes(xs, x) == \E i \in 1..Len(xs) : xs[i] = x

---------------------------------------------------------------------------
(* URL query state and its codec (./utils, after section 4.1 of spec.md) *)

\* order in which the URL lists the module parameters
ParamOrder == <<"A", "B", "C">>

ModuleIds == {ParamOrder[i] : i \in 1..Len(ParamOrder)}

\* unsetParam(name): removes the parameter if present, no-op if absent
unsetQueryParam(u, name) == [p \in (DOMAIN u) \ {name} |-> u[p]]

\* setParam(name, value): sets or replaces; an empty value is unsetParam
setQueryParam(u, name, value) ==
  IF value = <<>> THEN unsetQueryParam(u, name)
  ELSE [p \in (DOMAIN u) \cup {name} |-> IF p = name THEN value ELSE u[p]]

\* setParam(name) with no value: presence-only flag (empty value)
setQueryParamFlag(u, name) ==
  [p \in (DOMAIN u) \cup {name} |-> IF p = name THEN <<>> ELSE u[p]]

\* the write commands a transition issues, in order
WrSet(name, value) == [op |-> "set", name |-> name, value |-> value]
WrFlag(name) == [op |-> "flag", name |-> name, value |-> <<>>]
WrUnset(name) == [op |-> "unset", name |-> name, value |-> <<>>]

\* getInitialState()[2]: the [id, occurrences] pairs of the module parameters
InitialModules(u) ==
  LET F(id) == IF id \in DOMAIN u THEN <<<<id, u[id]>>>> ELSE <<>>
  IN FlatMap(F, ParamOrder)

\* getInitialState()[3]: the hidden keys of the `hide` parameter
InitialHidden(u) ==
  IF "hide" \notin DOMAIN u THEN <<>>
  ELSE LET K(k) == Split(k, "_") IN Map(K, Split(u["hide"], ","))

\* the URL after the write commands ws have been carried out in order
RECURSIVE ApplyWrites(_, _)
ApplyWrites(u, ws) ==
  IF Len(ws) = 0 THEN u
  ELSE LET w == ws[1]
           u1 == IF w.op = "unset" THEN unsetQueryParam(u, w.name)
                 ELSE IF w.op = "flag" THEN setQueryParamFlag(u, w.name)
                 ELSE setQueryParam(u, w.name, w.value)
       IN ApplyWrites(u1, Tail(ws))

---------------------------------------------------------------------------
(* Occurrence Spec Parser *)

\* s[i..] is a run of non-digits followed by a non-empty run of digits
\* reaching the end of s
MatchesAt(s, i) ==
  \E d \in i..Len(s) :
    /\ \A j \in i..(d - 1) : ~IsDigit(s[j])
    /\ \A j \in d..Len(s) : IsDigit(s[j])

\* variant of RegexMatch whose digit group is a single digit
RegexMatchOneDigit(o) ==
  LET n == Len(o)
      At(i) == IsDigit(o[n]) /\ \A j \in i..(n - 1) : ~IsDigit(o[j])
  IN IF n = 0 \/ ~IsDigit(o[n]) THEN <<>>
     ELSE LET i == CHOOSE k \in 1..n : At(k) /\ \A j \in 1..(k - 1) : ~At(j)
          IN <<SubSeq(o, i, n), SubSeq(o, i, n - 1), <<o[n]>>>>

\* o.match(/([^0-9]*)([0-9]+)$/): the leftmost match, <<>> when there is none
RegexMatch(o) ==
  IF \A i \in 1..Len(o) : ~MatchesAt(o, i) THEN <<>>
  ELSE LET i == CHOOSE k \in 1..Len(o) :
                  MatchesAt(o, k) /\ \A j \in 1..(k - 1) : ~MatchesAt(o, j)
           d == CHOOSE k \in i..Len(o) :
                  /\ \A j \in i..(k - 1) : ~IsDigit(o[j])
                  /\ \A j \in k..Len(o) : IsDigit(o[j])
       IN <<SubSeq(o, i, Len(o)), SubSeq(o, i, d - 1), SubSeq(o, d, Len(o))>>

\* the triples of one token o of module's occurrence string
parseToken(module, o, selectedIds) ==
  IF Len(o) = 0 \/ ~Includes(selectedIds, module) THEN <<>>
  ELSE LET r == RegexMatch(o)
       IN IF Len(r) = 0 \/ Len(r[3]) = 0 THEN <<>>
          ELSE <<<<module, r[2], parseInt(r[3])>>>>

\* variant of parsePair in which one bad token discards the whole pair
parsePairAllOrNothing(pair, selectedIds) ==
  LET T(o) == parseToken(pair[1], o, selectedIds)
      os == Split(pair[2], ",")
  IN IF \E i \in 1..Len(os) : Len(os[i]) > 0 /\ Len(T(os[i])) = 0
     THEN <<>> ELSE FlatMap(T, os)

\* the triples of one [module, occurrences] pair
parsePair(pair, selectedIds) ==
  LET T(o) == parseToken(pair[1], o, selectedIds)
  IN FlatMap(T, Split(pair[2], ","))

getSpecOccurrences(m, selectedIds) ==
  LET P(pair) == parsePair(pair, selectedIds) IN FlatMap(P, m)

---------------------------------------------------------------------------
(* Selection Reducer *)

\* a module object {id}; `ref` is its identity, which Array.includes compares:
\* ref 0 is the object made at startup, ref 1 another object of the same id
Objects == [id : ModuleIds, ref : {0}] \cup {[id |-> "A", ref |-> 1]}

idOf(obj) == obj.id

\* state.forEach(m => { if (!updatedModules.includes(m)) unsetQueryParam(m.id) })
removedWrites(state, updatedModules) ==
  LET F(m) == IF ~Includes(updatedModules, m) THEN <<WrUnset(m.id)>> ELSE <<>>
  IN FlatMap(F, state)

\* variant of addedWrites that flags every module of the candidate sequence
addedWritesAll(state, updatedModules) ==
  LET F(m) == <<WrFlag(m.id)>> IN FlatMap(F, updatedModules)

\* updatedModules.forEach(m => { if (!state.includes(m)) setQueryParam(m.id) })
addedWrites(state, updatedModules) ==
  LET F(m) == IF ~Includes(state, m) THEN <<WrFlag(m.id)>> ELSE <<>>
  IN FlatMap(F, updatedModules)

selectedModulesReducer(state, updatedModules) ==
  [next |-> updatedModules,
   writes |-> removedWrites(state, updatedModules)
                \o addedWrites(state, updatedModules),
   threw |-> FALSE]

---------------------------------------------------------------------------
(* Occurrence Reducer *)

\* case 'select': setQueryParam(module, groupId + occurrence)
selectWrites(values) ==
  <<WrSet(values[1], values[2] \o numberToString(values[3]))>>

\* variant of selectNext that replaces the stored choice of the same group
selectNextReplacing(state, values) ==
  LET Other(t) == ~(t[1] = values[1] /\ t[2] = values[2])
  IN Append(SelectSeq(state, Other), values)

\* case 'select': return [...state, action.values]
selectNext(state, values) == Append(state, values)

\* case 'reset': setQueryParam(module, '')
resetWrites(values) == <<WrSet(values[1], <<>>)>>

\* variant of resetNext that removes the first matching triple only
resetNextFirstOnly(state, values) ==
  IF ~Includes(state, values) THEN state
  ELSE LET i == CHOOSE k \in 1..Len(state) :
                  state[k] = values /\ \A j \in 1..(k - 1) : state[j] # values
       IN SubSeq(state, 1, i - 1) \o SubSeq(state, i + 1, Len(state))

\* variant of resetNext that ignores the occurrence number
resetNextWholeGroup(state, values) ==
  LET Keep(t) == ~(t[1] = values[1] /\ t[2] = values[2])
  IN SelectSeq(state, Keep)

\* case 'reset': state.filter(([m, g, o]) => !(m === module && g === groupId && o === occurrence))
resetNext(state, values) ==
  LET Keep(t) == ~(t[1] = values[1] /\ t[2] = values[2] /\ t[3] = values[3])
  IN SelectSeq(state, Keep)

\* default: throw new Error()
occurrencesDefault(state) == [next |-> state, writes |-> <<>>, threw |-> TRUE]

changeOccurrences(state, action) ==
  IF action.type = "select"
    THEN [next |-> selectNext(state, action.values),
          writes |-> selectWrites(action.values), threw |-> FALSE]
  ELSE IF action.type = "reset"
    THEN [next |-> resetNext(state, action.values),
          writes |-> resetWrites(action.values), threw |-> FALSE]
  ELSE occurrencesDefault(state)

---------------------------------------------------------------------------
(* Hidden-Events Reducer *)

\* const hide = state.map(x => x.join('_')).join(',')
hideParam(state) ==
  LET J(x) == Join(x, "_") IN Join(Map(J, state), ",")

\* if (hide.length > 0) setQueryParam('hide', hide) else unsetQueryParam('hide')
hideWrites(hide) ==
  IF Len(hide) > 0 THEN <<WrSet("hide", hide)>> ELSE <<WrUnset("hide")>>

\* variant of hiddenReset that clears the module parameters as well
hiddenResetEverything(state) ==
  [next |-> <<>>,
   writes |-> <<WrUnset("hide")>> \o Map(WrUnset, ParamOrder),
   threw |-> FALSE]

\* variant of hiddenReset that forgets the URL write
hiddenResetNoWrite(state) ==
  [next |-> <<>>, writes |-> <<>>, threw |-> FALSE]

\* case 'reset': unsetQueryParam('hide'); return []
hiddenReset(state) ==
  [next |-> <<>>, writes |-> <<WrUnset("hide")>>, threw |-> FALSE]

\* variant of hiddenDefault that ignores the action instead of throwing
hiddenDefaultSilent(state) ==
  [next |-> state, writes |-> <<>>, threw |-> FALSE]

\* default: throw new Error()
hiddenDefault(state) == [next |-> state, writes |-> <<>>, threw |-> TRUE]

changeHidden(state, action) ==
  IF action.type = "reset" THEN hiddenReset(state)
  ELSE IF action.type = "hide"
    THEN [next |-> Append(state, action.values),
          writes |-> hideWrites(hideParam(state)),
          threw |-> FALSE]
  ELSE hiddenDefault(state)

---------------------------------------------------------------------------
(* Inputs *)

\* 'hide' is no kind of the occurrence reducer, 'select' none of the hidden one
ActionTypes == {"select", "reset", "hide"}

OccModules == {"A", "B"}
GroupIds == {<<"T">>, <<"L", "e", "c">>}
OccNumbers == {1, 12}
Triples == {<<m, g, n>> : m \in OccModules, g \in GroupIds, n \in OccNumbers}

OccActions ==
  [type : {"select", "reset"}, values : Triples]
    \cup [type : ActionTypes \ {"select", "reset"}, values : {<<"A", <<"T">>, 1>>}]

HiddenKeys == {<< <<"1">>, <<"2">> >>, << <<"3">>, <<"4">> >>, << <<"5">> >>}

SeqsUpTo(S, n) == UNION {[1..k -> S] : k \in 0..n}

BaseUrl == [p \in {"y", "s"} |-> IF p = "y" THEN <<"2">> ELSE <<"S", "1">>]
UrlDup == setQueryParam(BaseUrl, "A", <<"T", "1", ",", "T", "1">>)
UrlFull ==
  setQueryParam(
    setQueryParam(
      setQueryParam(setQueryParamFlag(BaseUrl, "C"), "B", <<"T", "1", "2">>),
      "A", <<"T", "1", ",", "L", "e", "c", "1", "2">>),
    "hide", <<"1", "_", "2">>)

InitialUrls == {BaseUrl, UrlDup, UrlFull}

---------------------------------------------------------------------------
(* The application *)

NoAction == [reducer |-> "none", type |-> "none"]

\* the URL and the three stored sequences, as a dispatch finds them
Snapshot == [url |-> url, selectedModules |-> selectedModules,
             specifiedOccurrences |-> specifiedOccurrences, hidden |-> hidden]

\* const [y, s, m, h] = getInitialState() and the three useReducer seeds
Mounted(u) ==
  LET m == InitialModules(u)
      sel == [i \in 1..Len(m) |-> [id |-> m[i][1], ref |-> 0]]
  IN [selectedModules |-> sel,
      specifiedOccurrences |-> getSpecOccurrences(m, Map(idOf, sel)),
      hidden |-> InitialHidden(u)]

ParserIdle ==
  /\ parseIn = <<>>
  /\ parseSel = <<>>
  /\ parseOut = <<>>

\* useState(s), useState({}) and useState({}) before the first fetch returns
DataIdle(u) ==
  /\ session = u["s"]
  /\ timetableData = <<>>
  /\ modules = <<>>

Init ==
  /\ url \in InitialUrls
  /\ selectedModules = Mounted(url).selectedModules
  /\ specifiedOccurrences = Mounted(url).specifiedOccurrences
  /\ hidden = Mounted(url).hidden
  /\ lastAction = NoAction
  /\ prevAction = NoAction
  /\ prev = Snapshot
  /\ writes = <<>>
  /\ threw = FALSE
  /\ dispatched = 0
  /\ log = <<>>
  /\ ParserIdle
  /\ DataIdle(url)

\* the page is loaded again from the current URL
Reload ==
  /\ ~threw
  /\ lastAction.reducer # "none"
  /\ selectedModules' = Mounted(url).selectedModules
  /\ specifiedOccurrences' = Mounted(url).specifiedOccurrences
  /\ hidden' = Mounted(url).hidden
  /\ lastAction' = NoAction
  /\ prevAction' = NoAction
  /\ prev' = [url |-> url, selectedModules |-> selectedModules',
              specifiedOccurrences |-> specifiedOccurrences',
              hidden |-> hidden']
  /\ writes' = <<>>
  /\ UNCHANGED <<url, threw, dispatched, parseIn, parseSel, parseOut, log,
                 session, timetableData, modules>>

\* variant of setSelectedModules that also drops the stored occurrences of
\* the modules no longer selected
SetSelectedModulesPruning(updatedModules) ==
  LET r == selectedModulesReducer(selectedModules, updatedModules)
      Kept(t) == IF \E i \in 1..Len(updatedModules) :
                      idOf(updatedModules[i]) = t[1]
                 THEN <<t>> ELSE <<>>
  IN
  /\ ~threw
  /\ selectedModules' = r.next
  /\ specifiedOccurrences' = FlatMap(Kept, specifiedOccurrences)
  /\ writes' = r.writes
  /\ url' = ApplyWrites(url, r.writes)
  /\ lastAction' = [reducer |-> "selection", type |-> "update",
                     values |-> updatedModules]
  /\ prevAction' = lastAction
  /\ prev' = Snapshot
  /\ UNCHANGED <<hidden, threw, parseIn, parseSel, parseOut,
                 session, timetableData, modules>>

\* setSelectedModules(updatedModules)
SetSelectedModules(updatedModules) ==
  LET r == selectedModulesReducer(selectedModules, updatedModules) IN
  /\ ~threw
  /\ selectedModules' = r.next
  /\ writes' = r.writes
  /\ url' = ApplyWrites(url, r.writes)
  /\ lastAction' = [reducer |-> "selection", type |-> "update",
                     values |-> updatedModules]
  /\ prevAction' = lastAction
  /\ prev' = Snapshot
  /\ UNCHANGED <<specifiedOccurrences, hidden, threw,
                 parseIn, parseSel, parseOut,
                 session, timetableData, modules>>

\* setSpecifiedOccurrences(action)
SetSpecifiedOccurrences(action) ==
  LET r == changeOccurrences(specifiedOccurrences, action) IN
  /\ ~threw
  /\ action.type = "select" => Len(specifiedOccurrences) < MaxOcc
  /\ specifiedOccurrences' = r.next
  /\ writes' = r.writes
  /\ url' = ApplyWrites(url, r.writes)
  /\ threw' = r.threw
  /\ lastAction' = [reducer |-> "occurrences", type |-> action.type,
                     values |-> action.values]
  /\ prevAction' = lastAction
  /\ prev' = Snapshot
  /\ UNCHANGED <<selectedModules, hidden, parseIn, parseSel, parseOut,
                 session, timetableData, modules>>

\* setHidden(action)
SetHidden(action) ==
  LET r == changeHidden(hidden, action) IN
  /\ ~threw
  /\ action.type = "hide" => Len(hidden) < MaxHidden
  /\ hidden' = r.next
  /\ writes' = r.writes
  /\ url' = ApplyWrites(url, r.writes)
  /\ threw' = r.threw
  /\ lastAction' = [reducer |-> "hidden", type |-> action.type,
                     values |-> action.values]
  /\ prevAction' = lastAction
  /\ prev' = Snapshot
  /\ UNCHANGED <<selectedModules, specifiedOccurrences,
                 parseIn, parseSel, parseOut,
                 session, timetableData, modules>>

DispatchSelection ==
  \E updatedModules \in SeqsUpTo(Objects, MaxSel) :
    SetSelectedModules(updatedModules)

DispatchOccurrences ==
  \E action \in OccActions : SetSpecifiedOccurrences(action)

\* a selection change made while the other reducers are in use
DispatchAppSelection ==
  \E updatedModules \in SeqsUpTo(Objects, MaxAppSel) :
    SetSelectedModules(updatedModules)

\* a reset action carries no values
DispatchHidden ==
  \E ty \in ActionTypes, v \in HiddenKeys \cup {<<>>} :
    /\ (ty = "hide") = (v # <<>>)
    /\ SetHidden([type |-> ty, values |-> v])

Counted == dispatched < MaxDispatch /\ dispatched' = dispatched + 1

\* a reducer calls setQueryParam and unsetQueryParam as it runs: each write
\* is issued at once, behind the writes issued before it
issueWritesCoalesced(issued, ws) ==
  IF ws # <<>> /\ issued # <<>> /\ ws[1] = issued[Len(issued)]
    THEN issued \o Tail(ws) ELSE issued \o ws
issueWrites(issued, ws) == issued \o ws

Logged == log' = issueWrites(log, writes')

\* the three reducers interleaved, as the application dispatches to them
Next ==
  \/ Counted /\ DispatchAppSelection /\ Logged
  \/ Counted /\ DispatchOccurrences /\ Logged
  \/ Counted /\ DispatchHidden /\ Logged
  \/ Reload

Spec == Init /\ [][Next]_vars

\* the parser on its own: any pairs, any selection
\* the token lists of the occurrence strings "", "T1", "Tx", "7", "T1,Tx",
\* "Tx,T1,T1" and "1L02,,T1"
ParseTokenLists ==
  { <<>>,
    << <<"T", "1">> >>,
    << <<"T", "x">> >>,
    << <<"7">> >>,
    << <<"T", "1">>, <<"T", "x">> >>,
    << <<"T", "x">>, <<"T", "1">>, <<"T", "1">> >>,
    << <<"1", "L", "0", "2">>, <<>>, <<"T", "1">> >> }
ParsePairs == {<<m, ts>> : m \in OccModules, ts \in ParseTokenLists}
ParseSelections == {<<>>, <<"A">>, <<"B", "A">>}

\* the [module, occurrences] pair the URL holds for a module and its tokens
RawPair(p) == <<p[1], Join(p[2], ",")>>

InitParse ==
  /\ url = BaseUrl
  /\ selectedModules = <<>>
  /\ specifiedOccurrences = <<>>
  /\ hidden = <<>>
  /\ lastAction = NoAction
  /\ prevAction = NoAction
  /\ prev = Snapshot
  /\ writes = <<>>
  /\ threw = FALSE
  /\ dispatched = 0
  /\ log = <<>>
  /\ DataIdle(url)
  /\ parseIn \in SeqsUpTo(ParsePairs, MaxPairs)
  /\ parseSel \in ParseSelections
  /\ parseOut = <<>>

Parse ==
  /\ lastAction.reducer = "none"
  /\ parseOut' = getSpecOccurrences(Map(RawPair, parseIn), parseSel)
  /\ lastAction' = [reducer |-> "parser", type |-> "parse"]
  /\ UNCHANGED <<url, selectedModules, specifiedOccurrences, hidden,
                 prevAction, prev, writes, threw, dispatched,
                 parseIn, parseSel, log, session, timetableData, modules>>

SpecParse == InitParse /\ [][Parse]_vars

\* each reducer on its own, to any depth
\* (the selection reducer from the URL that selects all three modules)
InitSel == Init /\ url = UrlFull
NextSel == DispatchSelection /\ UNCHANGED <<dispatched, log>>
SpecSel == InitSel /\ [][NextSel]_vars

NextOcc == DispatchOccurrences /\ UNCHANGED <<dispatched, log>>
SpecOcc == Init /\ [][NextOcc]_vars

NextHidden == DispatchHidden /\ UNCHANGED <<dispatched, log>>
SpecHidden == Init /\ [][NextHidden]_vars

---------------------------------------------------------------------------
(* Properties of the Hidden-Events Reducer *)

IsHidden(a, ty) == a.reducer = "hidden" /\ a.type = ty

\* the aggregated value of a sequence of hidden keys
Aggregated(h) == LET J(x) == Join(x, "_") IN Join(Map(J, h), ",")

\* the `hide` parameter of u agrees with the stored sequence h
HideAgrees(u, h) ==
  IF h = <<>> THEN "hide" \notin DOMAIN u
  ELSE "hide" \in DOMAIN u /\ u["hide"] = Aggregated(h)

\* C1: a hidden-events transition that starts with the `hide` parameter and
\* the stored sequence in agreement ends with them in agreement: `hide` is
\* unset when the sequence is empty and is otherwise the '_'/',' join of all
\* stored keys, the key just hidden included.
C1_HideParamTracksHidden ==
  [][(HideAgrees(url, hidden) /\ lastAction'.reducer = "hidden" /\ ~threw')
       => HideAgrees(url', hidden')]_vars

\* C7: after a reset of the hidden events the stored sequence is empty and
\* the `hide` parameter is unset, however many keys were hidden before.
C7_ResetClearsHidden ==
  IsHidden(lastAction, "reset") =>
    hidden = <<>> /\ "hide" \notin DOMAIN url

C7_Witness ==
  /\ IsHidden(lastAction, "reset")
  /\ Len(prev.hidden) >= 2
  /\ "hide" \in DOMAIN prev.url
  /\ hidden = <<>>

---------------------------------------------------------------------------
(* Properties of the Occurrence Reducer *)

IsOcc(a, ty) == a.reducer = "occurrences" /\ a.type = ty

ToSet(xs) == {xs[i] : i \in 1..Len(xs)}

SelectedIds == {selectedModules[i].id : i \in 1..Len(selectedModules)}

\* what a reload of the page would derive from the URL u
Restored(u) == ToSet(Mounted(u).specifiedOccurrences)

\* C2: a select or reset on a selected module, done where the URL restores
\* the stored occurrence choices, leaves a URL that restores them again:
\* the startup derivation gives the set of triples held in memory.
C2_UrlRestoresOccurrences ==
  [][(/\ Restored(url) = ToSet(specifiedOccurrences)
      /\ lastAction'.reducer = "occurrences"
      /\ lastAction'.type \in {"select", "reset"}
      /\ lastAction'.values[1] \in SelectedIds)
       => Restored(url') = ToSet(specifiedOccurrences')]_vars

\* C3 as stated: select(m,g,n) followed by reset(m,g,n) gives back the
\* sequence stored before the select, whatever that sequence was, and leaves
\* m's parameter unset.
C3_SelectResetRestoresAny ==
  [][(/\ IsOcc(lastAction, "select")
      /\ IsOcc(lastAction', "reset")
      /\ lastAction'.values = lastAction.values)
       => /\ specifiedOccurrences' = prev.specifiedOccurrences
          /\ lastAction.values[1] \notin DOMAIN url']_vars

\* C3 amended: select(m,g,n) followed by reset(m,g,n) gives back the
\* sequence stored before the select when that sequence did not already
\* hold (m,g,n), and leaves m's parameter unset in every case.
C3_SelectResetRestores ==
  [][(/\ IsOcc(lastAction, "select")
      /\ IsOcc(lastAction', "reset")
      /\ lastAction'.values = lastAction.values)
       => /\ ~Includes(prev.specifiedOccurrences, lastAction.values)
               => specifiedOccurrences' = prev.specifiedOccurrences
          /\ lastAction.values[1] \notin DOMAIN url']_vars

C3_Witness ==
  /\ IsOcc(prevAction, "select")
  /\ IsOcc(lastAction, "reset")
  /\ prevAction.values = lastAction.values
  /\ specifiedOccurrences # <<>>
  /\ ~Includes(specifiedOccurrences, lastAction.values)
  /\ prev.specifiedOccurrences = Append(specifiedOccurrences, lastAction.values)
  /\ lastAction.values[1] \in DOMAIN prev.url
  /\ lastAction.values[1] \notin DOMAIN url

\* the decimal digits of n: no sign, no leading zero, value n
IsDecimalOf(ds, n) ==
  /\ Len(ds) >= 1
  /\ \A i \in 1..Len(ds) : IsDigit(ds[i])
  /\ Len(ds) > 1 => ds[1] # "0"
  /\ parseInt(ds) = n

\* C9: select(m,g,n) sets m's parameter to g followed by the decimal digits
\* of n, and the stored sequence becomes the previous one with (m,g,n) added
\* at the end, every earlier triple staying where it was.
C9_SelectAppends ==
  IsOcc(lastAction, "select") =>
    LET m == lastAction.values[1]
        g == lastAction.values[2]
        n == lastAction.values[3]
    IN /\ m \in DOMAIN url
       /\ Len(url[m]) > Len(g)
       /\ SubSeq(url[m], 1, Len(g)) = g
       /\ IsDecimalOf(SubSeq(url[m], Len(g) + 1, Len(url[m])), n)
       /\ Len(specifiedOccurrences) = Len(prev.specifiedOccurrences) + 1
       /\ specifiedOccurrences[Len(specifiedOccurrences)] = lastAction.values
       /\ \A i \in 1..Len(prev.specifiedOccurrences) :
            specifiedOccurrences[i] = prev.specifiedOccurrences[i]

C9_Witness ==
  /\ IsOcc(lastAction, "select")
  /\ lastAction.values[3] >= 10
  /\ \E i \in 1..Len(prev.specifiedOccurrences) :
       /\ prev.specifiedOccurrences[i][1] = lastAction.values[1]
       /\ prev.specifiedOccurrences[i][2] = lastAction.values[2]
       /\ prev.specifiedOccurrences[i][3] # lastAction.values[3]
       /\ specifiedOccurrences[i] = prev.specifiedOccurrences[i]

\* C10: reset(m,g,n) leaves m's parameter unset in every case, removes every
\* stored triple equal to (m,g,n) and keeps all the others in their order.
C10_ResetRemovesExactMatches ==
  IsOcc(lastAction, "reset") =>
    LET Differs(t) == t # lastAction.values
    IN /\ lastAction.values[1] \notin DOMAIN url
       /\ specifiedOccurrences = SelectSeq(prev.specifiedOccurrences, Differs)

C10_Witness ==
  /\ IsOcc(lastAction, "reset")
  /\ lastAction.values[1] \in DOMAIN prev.url
  /\ lastAction.values[1] \notin DOMAIN url
  /\ Len(prev.specifiedOccurrences) = Len(specifiedOccurrences) + 1
  /\ Len(specifiedOccurrences) >= 2
  /\ specifiedOccurrences[1] # specifiedOccurrences[2]
  /\ \E i \in 1..Len(specifiedOccurrences) :
       specifiedOccurrences[i][1] = lastAction.values[1]

\* C8: a reset dispatched right after the same reset changes neither the
\* stored sequences nor the URL.
C8_ResetIdempotent ==
  (/\ lastAction.reducer = prevAction.reducer
   /\ lastAction.type = "reset"
   /\ prevAction.type = "reset"
   /\ lastAction.reducer \in {"occurrences", "hidden"}
   /\ lastAction.values = prevAction.values)
    => /\ specifiedOccurrences = prev.specifiedOccurrences
       /\ hidden = prev.hidden
       /\ url = prev.url

C8_Witness ==
  /\ IsOcc(lastAction, "reset")
  /\ IsOcc(prevAction, "reset")
  /\ lastAction.values = prevAction.values
  /\ lastAction.values[1] \in SelectedIds
  /\ lastAction.values[1] \notin DOMAIN url
  /\ specifiedOccurrences # <<>>

---------------------------------------------------------------------------
(* Unrecognised action kinds *)

Recognised(a) ==
  \/ a.reducer = "occurrences" /\ a.type \in {"select", "reset"}
  \/ a.reducer = "hidden" /\ a.type \in {"hide", "reset"}

\* C6: a dispatch to the occurrence or hidden-events reducer raises an error
\* exactly when the action kind is not one of the reducer's two kinds, and
\* then no parameter is written and no stored sequence changes.
C6_UnknownKindThrows ==
  lastAction.reducer \in {"occurrences", "hidden"} =>
    /\ threw <=> ~Recognised(lastAction)
    /\ threw => /\ writes = <<>>
                /\ url = prev.url
                /\ specifiedOccurrences = prev.specifiedOccurrences
                /\ hidden = prev.hidden

C6_Witness ==
  /\ threw
  /\ lastAction.reducer = "hidden"
  /\ lastAction.type = "select"
  /\ hidden # <<>>
  /\ "hide" \in DOMAIN url

---------------------------------------------------------------------------
(* Properties of the Selection Reducer *)

Count(xs, P(_)) == Cardinality({i \in 1..Len(xs) : P(xs[i])})

NamesOf(ws, op) == {ws[i].name : i \in {k \in 1..Len(ws) : ws[k].op = op}}

\* C4: a selection transition from `state` to `updated` unsets exactly the
\* modules of `state` that `updated` does not include, flags (sets without a
\* value) exactly the modules of `updated` that `state` does not include,
\* writes nothing else, and stores `updated` as it is.
C4_SelectionDiff ==
  lastAction.reducer = "selection" =>
    LET state == prev.selectedModules
        updated == lastAction.values
        Gone(m) == ~Includes(updated, m)
        New(m) == ~Includes(state, m)
        gone == {state[i].id : i \in {k \in 1..Len(state) : Gone(state[k])}}
        new == {updated[i].id : i \in {k \in 1..Len(updated) : New(updated[k])}}
    IN /\ selectedModules = updated
       /\ NamesOf(writes, "unset") = gone
       /\ NamesOf(writes, "flag") = new
       /\ NamesOf(writes, "set") = {}
       /\ Len(writes) = Count(state, Gone) + Count(updated, New)
       /\ \A id \in ModuleIds :
            /\ id \in new => id \in DOMAIN url
            /\ id \in gone \ new => id \notin DOMAIN url
            /\ id \notin gone \cup new =>
                 /\ (id \in DOMAIN url) = (id \in DOMAIN prev.url)
                 /\ id \in DOMAIN url => url[id] = prev.url[id]

C4_Witness ==
  /\ lastAction.reducer = "selection"
  /\ Map(idOf, prev.selectedModules) = <<"A", "B">>
  /\ Map(idOf, selectedModules) = <<"B", "C">>
  /\ selectedModules[1] = prev.selectedModules[2]
  /\ writes = <<WrUnset("A"), WrFlag("C")>>
  /\ "A" \notin DOMAIN url
  /\ url["C"] = <<>>
  /\ url["B"] = <<"T", "1", "2">>

---------------------------------------------------------------------------
(* Properties of the Occurrence Spec Parser *)

\* the token ends in a digit, so the pattern finds a trailing digit run
HasTrailingDigits(t) == Len(t) > 0 /\ IsDigit(t[Len(t)])

\* the parse of the token on its own, its module selected
Alone(m, t) == getSpecOccurrences(<< <<m, t>> >>, <<m>>)

ExpectedOut ==
  LET P(p) ==
        LET T(t) == IF HasTrailingDigits(t) /\ Includes(parseSel, p[1])
                    THEN Alone(p[1], t) ELSE <<>>
        IN FlatMap(T, p[2])
  IN FlatMap(P, parseIn)

\* C5: the parser emits one triple for a token exactly when the token has
\* the pattern's trailing digit run and its module is selected; the output
\* is, pair by pair and token by token, the triples of the emitting tokens,
\* each as it parses on its own, duplicates included.
C5_ParserEmitsPerToken ==
  lastAction.reducer = "parser" =>
    /\ parseOut = ExpectedOut
    /\ \A i \in 1..Len(parseIn) : \A j \in 1..Len(parseIn[i][2]) :
         LET a == Alone(parseIn[i][1], parseIn[i][2][j])
         IN /\ Len(a) = IF HasTrailingDigits(parseIn[i][2][j]) THEN 1 ELSE 0
            /\ Len(a) = 1 => a[1][1] = parseIn[i][1]

C5_Witness ==
  /\ lastAction.reducer = "parser"
  /\ Len(parseIn) = 2
  /\ parseIn[1][2] = << <<"T", "1">>, <<"T", "x">> >>
  /\ Includes(parseSel, parseIn[1][1])
  /\ Len(parseOut) = 2
  /\ parseOut[1] = parseOut[2]

\* the longest prefix of the token without a digit, and its trailing digits
NonDigitPrefix(t) ==
  SubSeq(t, 1, Cardinality({i \in 1..Len(t) :
                             \A j \in 1..i : ~IsDigit(t[j])}))
DigitSuffix(t) ==
  SubSeq(t, Len(t) + 1 - Cardinality({i \in 1..Len(t) :
                                      \A j \in i..Len(t) : IsDigit(t[j])}),
         Len(t))

\* C13: every triple the parser produces for a token has as groupId the
\* token's whole non-digit prefix, of one character or more, and as
\* occurrence the integer value of the token's trailing digit run, the
\* groupId followed by that digit run being the entire token.
C13_TripleSplitsToken ==
  lastAction.reducer = "parser" =>
    \A i \in 1..Len(parseIn) : \A j \in 1..Len(parseIn[i][2]) :
      LET t == parseIn[i][2][j]
          a == Alone(parseIn[i][1], t)
      IN (Includes(parseSel, parseIn[i][1]) /\ a # <<>>) =>
           /\ Includes(parseOut, a[1])
           /\ a[1][2] = NonDigitPrefix(t)
           /\ Len(a[1][2]) >= 1
           /\ a[1][3] = parseInt(DigitSuffix(t))
           /\ a[1][2] \o DigitSuffix(t) = t

---------------------------------------------------------------------------
(* Ordering of the query-parameter writes *)

---------------------------------------------------------------------------
(* Module Normalizer *)

\* most entries of a raw dataset handed to the normalizer on its own
MaxEntries == 2

UpperChars ==
  {"A", "B", "C", "D", "E", "F", "G", "H", "I", "J", "K", "L", "M",
   "N", "O", "P", "Q", "R", "S", "T", "U", "V", "W", "X", "Y", "Z"}

\* the regular expression /_[A-Z][1-9]/ matches at position i of the title
TagAt(title, i) ==
  /\ i + 2 <= Len(title)
  /\ title[i] = "_"
  /\ title[i + 1] \in UpperChars
  /\ IsDigit(title[i + 2]) /\ title[i + 2] # "0"

\* title.replace(/_[A-Z][1-9]/, ''): the leftmost match is removed
replaceTag(title) ==
  LET hits == {i \in 1..Len(title) : TagAt(title, i)} IN
  IF hits = {} THEN title
  ELSE LET i == CHOOSE k \in hits : \A j \in hits : k <= j
       IN SubSeq(title, 1, i - 1) \o SubSeq(title, i + 3, Len(title))

\* ({ classes, id, title, ...module }) => ({ title: ..., ...module })
processModuleKeepingId(module) ==
  [f \in DOMAIN module \ {"classes"} |->
     IF f = "title" THEN replaceTag(module.title) ELSE module[f]]
processModule(module) ==
  [f \in DOMAIN module \ {"classes", "id"} |->
     IF f = "title" THEN replaceTag(module.title) ELSE module[f]]

\* key.split('_')[0]
moduleCode(key) == Split(key, "_")[1]

\* { ...acc, [code]: record }
SpreadKeeping(acc, code, record) ==
  [k \in DOMAIN acc \cup {code} |->
     IF k \in DOMAIN acc THEN acc[k] ELSE record]
Spread(acc, code, record) ==
  [k \in DOMAIN acc \cup {code} |-> IF k = code THEN record ELSE acc[k]]

\* Object.entries(timetableData).reduce(..., {})
RECURSIVE setModules(_)
setModules(entries) ==
  IF entries = <<>> THEN <<>>
  ELSE LET n == Len(entries) IN
       Spread(setModules(SubSeq(entries, 1, n - 1)),
              moduleCode(entries[n][1]), processModule(entries[n][2]))

\* raw modules: "Ax_S1" with classes, id and dates; "B_S0_T2_U3" with dates
\* and link; "Cy" with an id
RawA ==
  [title |-> <<"A", "x", "_", "S", "1">>, classes |-> <<"c">>,
   id |-> <<"A", "_", "S", "1">>, dates |-> <<"d", "1">>]
RawB ==
  [title |-> <<"B", "_", "S", "0", "_", "T", "2", "_", "U", "3">>,
   dates |-> <<"d", "2">>, link |-> <<"l">>]
RawC == [title |-> <<"C", "y">>, id |-> <<"C">>]
RawModules == {RawA, RawB, RawC}

\* composite keys "A_S1", "A_S2", "A" and "B_S1_x"
RawKeys ==
  { <<"A", "_", "S", "1">>, <<"A", "_", "S", "2">>, <<"A">>,
    <<"B", "_", "S", "1", "_", "x">> }

\* an object holds a key once
DistinctKeys(entries) ==
  \A i, j \in 1..Len(entries) : entries[i][1] = entries[j][1] => i = j

Datasets ==
  {d \in SeqsUpTo(RawKeys \X RawModules, MaxEntries) : DistinctKeys(d)}

\* the effect of line 80 has run for the dataset held
Derived == modules = setModules(timetableData)

\* useEffect(() => setModules(...), [timetableData])
DeriveModules ==
  /\ ~Derived
  /\ modules' = setModules(timetableData)
  /\ UNCHANGED <<url, selectedModules, specifiedOccurrences, hidden,
                 lastAction, prevAction, prev, writes, threw, dispatched,
                 parseIn, parseSel, parseOut, log, session, timetableData>>

\* the normalizer on its own: any dataset
InitNorm ==
  /\ url = BaseUrl
  /\ selectedModules = <<>>
  /\ specifiedOccurrences = <<>>
  /\ hidden = <<>>
  /\ lastAction = NoAction
  /\ prevAction = NoAction
  /\ prev = Snapshot
  /\ writes = <<>>
  /\ threw = FALSE
  /\ dispatched = 0
  /\ log = <<>>
  /\ ParserIdle
  /\ session = url["s"]
  /\ timetableData \in Datasets
  /\ modules = <<>>

SpecNorm == InitNorm /\ [][DeriveModules]_vars

\* the entries of the dataset held whose key gives the module code
EntriesOf(code) ==
  {i \in 1..Len(timetableData) : moduleCode(timetableData[i][1]) = code}

\* the part of a composite key before its first '_'
BeforeUnderscore(key) ==
  LET us == {i \in 1..Len(key) : key[i] = "_"} IN
  IF us = {} THEN key
  ELSE SubSeq(key, 1, (CHOOSE i \in us : \A j \in us : i <= j) - 1)

LastEntryOf(code) ==
  CHOOSE i \in EntriesOf(code) : \A j \in EntriesOf(code) : j <= i

\* C12: the catalog derived from a dataset has exactly the keys its entries'
\* composite identifiers give when cut before their first '_', one entry
\* per distinct module code, and under each code the record made from the
\* last entry, in iteration order, that has this code.
C12_CatalogLastEntryWins ==
  (Derived /\ timetableData # <<>>) =>
    /\ DOMAIN modules =
         {BeforeUnderscore(timetableData[i][1]) : i \in 1..Len(timetableData)}
    /\ Cardinality(DOMAIN modules) =
         Cardinality({moduleCode(timetableData[i][1]) :
                        i \in 1..Len(timetableData)})
    /\ \A code \in DOMAIN modules :
         modules[code] = processModule(timetableData[LastEntryOf(code)][2])

\* two entries with the same module code and different records: the catalog
\* holds the record of the second
C12_Witness ==
  /\ Derived
  /\ Len(timetableData) = 2
  /\ moduleCode(timetableData[1][1]) = moduleCode(timetableData[2][1])
  /\ DOMAIN modules = {<<"A">>}
  /\ modules[<<"A">>] = processModule(timetableData[2][2])
  /\ modules[<<"A">>] # processModule(timetableData[1][2])

\* the raw module a catalog entry was made from
RawOf(code) == timetableData[LastEntryOf(code)][2]

\* C14 as stated: the record made from a raw entry carries every raw field
\* other than the title, with its raw value.
C14_AllOtherFieldsCarried ==
  (Derived /\ timetableData # <<>>) =>
    \A code \in DOMAIN modules :
      \A f \in DOMAIN RawOf(code) \ {"title"} :
        /\ f \in DOMAIN modules[code]
        /\ modules[code][f] = RawOf(code)[f]

\* C14: the record made from a raw entry has the raw fields without
\* `classes` and `id`, and no other field; every field it has other than
\* the title carries its raw value, so that only the title can differ.
C14_FieldsCarriedExceptDropped ==
  (Derived /\ timetableData # <<>>) =>
    \A code \in DOMAIN modules :
      /\ DOMAIN modules[code] = DOMAIN RawOf(code) \ {"classes", "id"}
      /\ \A f \in DOMAIN modules[code] \ {"title"} :
           modules[code][f] = RawOf(code)[f]

\* a raw module with classes, id and dates: the record keeps the dates,
\* has neither classes nor id, and a title without the tag
C14_Witness ==
  /\ Derived
  /\ <<"A">> \in DOMAIN modules
  /\ {"classes", "id", "dates"} \subseteq DOMAIN RawOf(<<"A">>)
  /\ DOMAIN modules[<<"A">>] = {"title", "dates"}
  /\ modules[<<"A">>].dates = RawOf(<<"A">>).dates
  /\ modules[<<"A">>].title = <<"A", "x">>

---------------------------------------------------------------------------
(* Dataset reload and the selected modules *)

Sessions == {<<"S", "1">>, <<"S", "2">>}

\* /timetable_<year>_<session>.json: modules A and B in S1, B and C in S2
Timetable(s) ==
  IF s = <<"S", "1">>
    THEN << <<<<"A", "_", "S", "1">>, RawA>>, <<<<"B", "_", "S", "1">>, RawB>> >>
    ELSE << <<<<"B", "_", "S", "2">>, RawB>>, <<<<"C", "_", "S", "2">>, RawC>> >>

\* setSession(s), with the effect that writes the `s` parameter
SetSession(s) ==
  /\ ~threw
  /\ s # session
  /\ session' = s
  /\ url' = setQueryParam(url, "s", s)
  /\ UNCHANGED <<selectedModules, specifiedOccurrences, hidden, lastAction,
                 prevAction, prev, writes, threw, dispatched,
                 parseIn, parseSel, parseOut, log, timetableData, modules>>

\* the fetch for the current year and session returns: setTimetableData
LoadTimetable ==
  /\ ~threw
  /\ timetableData # Timetable(session)
  /\ timetableData' = Timetable(session)
  /\ UNCHANGED <<url, selectedModules, specifiedOccurrences, hidden,
                 lastAction, prevAction, prev, writes, threw, dispatched,
                 parseIn, parseSel, parseOut, log, session, modules>>

NextData ==
  \/ \E s \in Sessions : SetSession(s)
  \/ LoadTimetable
  \/ DeriveModules
  \/ DispatchAppSelection /\ UNCHANGED <<dispatched, log>>

SpecData == Init /\ [][NextData]_vars

\* the dataset of the current session is loaded and the catalog is derived
Settled == timetableData = Timetable(session) /\ Derived

\* the catalog key of a module id (the ids of the model are one character)
codeOfId(id) == <<id>>

\* C15: once the catalog is derived from the dataset loaded for the current
\* session, every selected module's id is a key of the catalog.
C15_SelectedInCatalog ==
  Settled =>
    \A i \in 1..Len(selectedModules) :
      codeOfId(idOf(selectedModules[i])) \in DOMAIN modules

---------------------------------------------------------------------------
(* The three reducers side by side *)

\* C16: whatever is dispatched to the selection and occurrence reducers
\* from the state seeded from the URL, a module's query parameter is in the
\* URL exactly when the module's id is in the selected-module sequence.
C16_ParamPresentIffSelected ==
  ~threw =>
    \A id \in ModuleIds : (id \in DOMAIN url) <=> (id \in SelectedIds)

\* C17 as stated: every stored triple names a module that is selected.
C17_TriplesNameSelected ==
  ~threw =>
    \A i \in 1..Len(specifiedOccurrences) :
      specifiedOccurrences[i][1] \in SelectedIds

\* C17: in the state seeded from the URL every stored triple names a
\* selected module, and a selection-reducer transition leaves the
\* specified-occurrence sequence as it found it: the triples of a module
\* taken out of the selection stay stored.
C17_SelectionKeepsTriples ==
  /\ lastAction = NoAction =>
       \A i \in 1..Len(specifiedOccurrences) :
         specifiedOccurrences[i][1] \in SelectedIds
  /\ lastAction.reducer = "selection" =>
       specifiedOccurrences = prev.specifiedOccurrences

\* module A is taken out of the selection and its triple is still stored
C17_Witness ==
  /\ lastAction.reducer = "selection"
  /\ \E i \in 1..Len(prev.selectedModules) :
       idOf(prev.selectedModules[i]) = "A"
  /\ "A" \notin SelectedIds
  /\ \E i \in 1..Len(specifiedOccurrences) : specifiedOccurrences[i][1] = "A"

\* the parameters other than `hide` are the same in two URLs
SameButHide(u, v) ==
  /\ DOMAIN u \ {"hide"} = DOMAIN v \ {"hide"}
  /\ \A p \in DOMAIN u \ {"hide"} : u[p] = v[p]

\* the `hide` parameter is the same in two URLs
SameHide(u, v) ==
  /\ ("hide" \in DOMAIN u) <=> ("hide" \in DOMAIN v)
  /\ "hide" \in DOMAIN u => u["hide"] = v["hide"]

\* C18: a hide or reset of hidden events writes no parameter but `hide`
\* and leaves the selected modules and the specified occurrences alone; a
\* selection or occurrence transition never writes `hide` and leaves the
\* hidden keys alone.
C18_HiddenFramedOff ==
  /\ lastAction.reducer = "hidden" =>
       /\ \A i \in 1..Len(writes) : writes[i].name = "hide"
       /\ SameButHide(url, prev.url)
       /\ selectedModules = prev.selectedModules
       /\ specifiedOccurrences = prev.specifiedOccurrences
  /\ lastAction.reducer \in {"selection", "occurrences"} =>
       /\ \A i \in 1..Len(writes) : writes[i].name # "hide"
       /\ SameHide(url, prev.url)
       /\ hidden = prev.hidden

\* a hidden-events reset after an occurrence reset, both with their writes:
\* the selection, the occurrences and the module parameters are in place
C18_Witness ==
  /\ IsHidden(lastAction, "reset")
  /\ IsOcc(prevAction, "reset")
  /\ writes = <<WrUnset("hide")>>
  /\ prev.hidden # <<>>
  /\ hidden = <<>>
  /\ selectedModules # <<>>
  /\ specifiedOccurrences # <<>>
  /\ "B" \in DOMAIN url

---------------------------------------------------------------------------
(* A select written to the URL and parsed back *)

\* largest occurrence number a select is tried with
MaxNumber == 12

\* group ids "T", "Lec", "T,L", "T1", "" and "-"
TripGroups ==
  { <<"T">>, <<"L", "e", "c">>, <<"T", ",", "L">>, <<"T", "1">>, <<>>,
    <<"-">> }

TripTriples ==
  {<<m, g, n>> : m \in OccModules, g \in TripGroups, n \in 0..MaxNumber}

\* one choice [module, groupId, occurrence] of a selected module
InitTrip ==
  /\ url = BaseUrl
  /\ selectedModules = <<>>
  /\ specifiedOccurrences = <<>>
  /\ hidden = <<>>
  /\ lastAction = NoAction
  /\ prevAction = NoAction
  /\ prev = Snapshot
  /\ writes = <<>>
  /\ threw = FALSE
  /\ dispatched = 0
  /\ log = <<>>
  /\ DataIdle(url)
  /\ parseIn \in TripTriples
  /\ parseSel = <<parseIn[1]>>
  /\ parseOut = <<>>

\* the value select writes for the choice is parsed as the module's
\* occurrence string
RoundTrip ==
  /\ lastAction.reducer = "none"
  /\ writes' = selectWrites(parseIn)
  /\ parseOut' = getSpecOccurrences(
                    << <<writes'[1].name, writes'[1].value>> >>, parseSel)
  /\ lastAction' = [reducer |-> "trip", type |-> "select"]
  /\ UNCHANGED <<url, selectedModules, specifiedOccurrences, hidden,
                 prevAction, prev, threw, dispatched,
                 parseIn, parseSel, log, session, timetableData, modules>>

SpecTrip == InitTrip /\ [][RoundTrip]_vars

NoDigit(g) == \A i \in 1..Len(g) : ~IsDigit(g[i])
NoComma(g) == \A i \in 1..Len(g) : g[i] # ","

\* C19 as stated: for a non-empty groupId without a digit, the value select
\* writes parses back to exactly the one triple selected.
C19_RoundTripAnyGroup ==
  (lastAction.reducer = "trip" /\ parseIn[2] # <<>> /\ NoDigit(parseIn[2])) =>
    parseOut = <<parseIn>>

\* C19: for a selected module, a non-empty groupId with neither a digit nor
\* a comma and an occurrence number n >= 0, the value select writes,
\* groupId followed by n in decimal, parses back to exactly the one triple
\* selected.
C19_RoundTrip ==
  (/\ lastAction.reducer = "trip"
   /\ parseIn[2] # <<>>
   /\ NoDigit(parseIn[2])
   /\ NoComma(parseIn[2])) =>
    /\ writes[1].value = parseIn[2] \o numberToString(parseIn[3])
    /\ parseOut = <<parseIn>>

\* select(A, "Lec", 12) writes "Lec12", which parses to (A, "Lec", 12)
C19_Witness ==
  /\ lastAction.reducer = "trip"
  /\ parseIn = <<"A", <<"L", "e", "c">>, 12>>
  /\ writes[1].value = <<"L", "e", "c", "1", "2">>
  /\ parseOut = <<parseIn>>
====
